---- MODULE Spec2Model ----
(***************************************************************************)
(* Model of custom_components/power_watchdog/coordinator.py:               *)
(* PowerWatchdogCoordinator, its change-event handler, its periodic check  *)
(* and its debounced confirmation task, together with the watched entity   *)
(* and the clock.                                                          *)
(*                                                                         *)
(* Time is discrete; one step of Advance is StepSeconds seconds.  Every    *)
(* timestamp of the code (utcnow(), time.time()) is stored as the time     *)
(* that has elapsed since it was taken, and every timer as the time that   *)
(* is left until it fires, so that a run may go on forever in a finite     *)
(* state space.  Elapsed times saturate at the value from which the code   *)
(* no longer distinguishes them.                                           *)
(*                                                                         *)
(* All callbacks and coroutines run on one asyncio event loop: an action   *)
(* is the code executed between two suspension points (await).             *)
(***************************************************************************)
EXTENDS Integers, FiniteSets, Sequences, TLC

\* ------------------------------------------------------------------ bounds
StepSeconds == 5
MaxDebounce == 4
MaxStale == 4
MaxRefresh == 3
MaxDur == 4
MaxTasks == 2

\* --------------------------------------------------------------- constants
DEFAULT_DEBOUNCE_SECONDS == 10
DEFAULT_STALE_TIMEOUT_SECONDS == 120
_check_interval == 15 \div StepSeconds
_probe_every == 20 \div StepSeconds
_probe_when_offline == TRUE
OFFLINE_STATES == {"unavailable", "unknown", "offline"}

\* ------------------------------------------------------------------ values
NoState == "None"          \* hass.states.get() returned None / State is None
NoTime == -1               \* a timestamp attribute that is None
NoAge == -1                \* age is None
NoTask == 0                \* self._pending_task is None
NoDuration == <<>>         \* duration_line is None

Readings == {"unavailable", "230", "231"}
AllReadings == Readings \cup {"unknown", "offline"}
TaskIds == 1..MaxTasks

DebounceChoices == {0, DEFAULT_DEBOUNCE_SECONDS \div StepSeconds, MaxDebounce}
StaleChoices == {0, MaxStale}
RefreshChoices == {0, MaxRefresh}

Min(a, b) == IF a < b THEN a ELSE b

VARIABLES
    cfg,               \* entry.data as read by __init__ (never changes)
    st,                \* the watched entity's state string, NoState if absent
    age,               \* utcnow() - report time of st
    data,              \* coordinator.data (WatchdogData or None)
    _online_since,     \* utcnow() - self._online_since, NoTime if None
    _offline_since,    \* utcnow() - self._offline_since, NoTime if None
    _pending_task,     \* self._pending_task: a task id or NoTask
    tasks,             \* the _debounced_commit_and_notify tasks of the loop
    _unsub,            \* self._unsub is set (the change subscription is live)
    _unsub_timer,      \* self._unsub_timer is set (the interval timer is live)
    _last_probe_ts,    \* time.time() - self._last_probe_ts
    _last_refresh_ts,  \* time.time() - self._last_refresh_ts
    tick,              \* time left until async_track_time_interval fires
    chk,               \* where the running _periodic_check is suspended
    startup_msg,       \* the fire-and-forget start-up notification
    phase,             \* "new" | "running" | "stopped"
    last_observed,     \* history: status of the last observation (event or tick)
    episode_age,       \* history: time since the confirmed status was established
    last_announced     \* history: the start-up status, then the status of the
                       \* last transition notification whose call came to its end

vars == <<cfg, st, age, data, _online_since, _offline_since, _pending_task, tasks,
          _unsub, _unsub_timer, _last_probe_ts, _last_refresh_ts, tick, chk,
          startup_msg, phase, last_observed, episode_age, last_announced>>

\* ------------------------------------------------------------- data model
NoData == [has |-> FALSE, online |-> FALSE, state |-> NoState]
WatchdogData(online, state) == [has |-> TRUE, online |-> online, state |-> state]

FreeTask == [pc |-> "free", new_online |-> FALSE, remaining |-> 0, committed |-> FALSE]
\* asyncio.Task.done()
done(t) == t.pc \in {"free", "done", "cancelled", "failed"}
Live(ts) == {i \in TaskIds : ~done(ts[i])}

\* the age from which _compute_online no longer distinguishes ages
AgeCap(c) == IF c.stale_timeout = 0 THEN 0 ELSE c.stale_timeout + 1

\* ------------------------------------------------------------- classifier
\* a classifier without the test for an absent reading
_is_online_absent_unchecked(state_str) == state_str \notin OFFLINE_STATES

_is_online(state_str) ==
    IF state_str = NoState THEN FALSE ELSE state_str \notin OFFLINE_STATES

\* a staleness test that already fires at age = stale_timeout
_compute_online_at_timeout(s, a, stale_timeout) ==
    IF s = NoState
    THEN [online |-> FALSE, state |-> NoState, age |-> NoAge]
    ELSE IF _is_online(s) /\ stale_timeout > 0 /\ a >= stale_timeout
         THEN [online |-> FALSE, state |-> s, age |-> a]
         ELSE [online |-> _is_online(s), state |-> s, age |-> a]

_compute_online(s, a, stale_timeout) ==
    IF s = NoState
    THEN [online |-> FALSE, state |-> NoState, age |-> NoAge]
    ELSE LET online == _is_online(s) IN
         IF online /\ stale_timeout > 0 /\ a > stale_timeout
         THEN [online |-> FALSE, state |-> s, age |-> a]
         ELSE [online |-> online, state |-> s, age |-> a]

\* the effective status of the entity now
Effective == _compute_online(st, age, cfg.stale_timeout)

\* ------------------------------------------------------------------- init
TypeOK ==
    /\ cfg \in [debounce : Nat, stale_timeout : Nat,
                notify_on_start : BOOLEAN, refresh_every : RefreshChoices]
    /\ st \in AllReadings \cup {NoState}
    /\ age \in Nat
    /\ data \in [has : BOOLEAN, online : BOOLEAN, state : AllReadings \cup {NoState}]
    /\ _online_since \in {NoTime} \cup 0..MaxDur
    /\ _offline_since \in {NoTime} \cup 0..MaxDur
    /\ _pending_task \in {NoTask} \cup TaskIds
    /\ tasks \in [TaskIds -> [pc : {"free", "sleep", "send", "done", "cancelled", "failed"},
                              new_online : BOOLEAN, remaining : 0..MaxDebounce,
                              committed : BOOLEAN]]
    /\ _unsub \in BOOLEAN
    /\ _unsub_timer \in BOOLEAN
    /\ _last_probe_ts \in 0.._probe_every
    /\ _last_refresh_ts \in 0..MaxRefresh
    /\ tick \in 0.._check_interval
    /\ chk \in {"idle", "probe", "refresh"}
    /\ startup_msg \in {"none", "sending", "sent", "failed"}
    /\ phase \in {"new", "running", "stopped"}
    /\ last_observed \in {"none", "online", "offline"}
    /\ episode_age \in {NoTime} \cup 0..MaxDur
    /\ last_announced \in {"none", "online", "offline"}

\* PowerWatchdogCoordinator.__init__ for a given entry.data and entity
Constructed ==
    /\ data = NoData
    /\ _online_since = NoTime
    /\ _offline_since = NoTime
    /\ _pending_task = NoTask
    /\ tasks = [i \in TaskIds |-> FreeTask]
    /\ _unsub = FALSE
    /\ _unsub_timer = FALSE
    /\ _last_probe_ts = _probe_every
    /\ _last_refresh_ts = cfg.refresh_every
    /\ tick = 0
    /\ chk = "idle"
    /\ startup_msg = "none"
    /\ phase = "new"
    /\ last_observed = "none"
    /\ episode_age = NoTime
    /\ last_announced = "none"

\* entry.data: every debounce and staleness choice without the optional
\* features, and each optional feature with the default debounce
Config(d, s, n, r) ==
    [debounce |-> d, stale_timeout |-> s, notify_on_start |-> n, refresh_every |-> r]
ConfigChoices ==
    {Config(d, s, FALSE, 0) : d \in DebounceChoices, s \in StaleChoices}
    \cup {Config(DEFAULT_DEBOUNCE_SECONDS \div StepSeconds, 0, TRUE, 0),
          Config(DEFAULT_DEBOUNCE_SECONDS \div StepSeconds, 0, FALSE, MaxRefresh)}

Init ==
    /\ cfg \in ConfigChoices
    /\ st \in Readings \cup {NoState}
    /\ age \in 0..AgeCap(cfg)
    /\ (st = NoState => age = 0)
    /\ Constructed

\* ----------------------------------------------------------------- helpers
Status(online) == IF online THEN "online" ELSE "offline"

Aged(t, cap) == IF t = NoTime THEN NoTime ELSE Min(t + 1, cap)

_sync_data_without_notify(online, state) ==
    data' = WatchdogData(online, state)

\* a handler that does not cancel the pending confirmation
cancel_pending_forgotten(ts, p) == ts

\* if self._pending_task and not self._pending_task.done(): self._pending_task.cancel()
\* The CancelledError is raised at the await the task is suspended in and is
\* swallowed by the task's except clause; what the task did before stays.
cancel_pending(ts, p) ==
    IF p # NoTask /\ ~done(ts[p])
    THEN [ts EXCEPT ![p] = [pc |-> "cancelled", new_online |-> FALSE,
                            remaining |-> 0, committed |-> ts[p].committed]]
    ELSE ts

\* the task object that hass.async_create_task returns
FreeSlots == {i \in TaskIds : done(tasks[i])}
FreeSlot == CHOOSE i \in FreeSlots : \A j \in FreeSlots : i <= j

\* hass.async_create_task(self._debounced_commit_and_notify(new_online=...)):
\* the coroutine first sleeps self._debounce (no sleep when it is 0)
create_task(ts, slot, new_online) ==
    [ts EXCEPT ![slot] = [pc |-> "sleep", new_online |-> new_online,
                          remaining |-> cfg.debounce, committed |-> FALSE]]

\* a scheduler that does not keep the new task in self._pending_task
schedule_untracked(new_online) ==
    /\ FreeSlots # {}
    /\ tasks' = create_task(cancel_pending(tasks, _pending_task), FreeSlot, new_online)
    /\ UNCHANGED _pending_task

\* cancel the pending confirmation, then start a new one
schedule(new_online) ==
    /\ FreeSlots # {}
    /\ tasks' = create_task(cancel_pending(tasks, _pending_task), FreeSlot, new_online)
    /\ _pending_task' = FreeSlot

\* ------------------------------------------------------------ async_start
\* a start that sends the start-up notification whatever notify_on_start is
async_start_always_notifies ==
    /\ phase = "new"
    /\ LET r == _compute_online(st, age, cfg.stale_timeout) IN
         /\ IF r.online
            THEN _online_since' = 0 /\ _offline_since' = NoTime
            ELSE _offline_since' = 0 /\ _online_since' = NoTime
         /\ _sync_data_without_notify(r.online, r.state)
    /\ startup_msg' = "sending"
    /\ _unsub' = TRUE
    /\ _unsub_timer' = TRUE
    /\ tick' = _check_interval
    /\ phase' = "running"
    /\ episode_age' = 0
    /\ last_announced' = Status(_compute_online(st, age, cfg.stale_timeout).online)
    /\ UNCHANGED <<cfg, st, age, _pending_task, tasks, _last_probe_ts,
                   _last_refresh_ts, chk, last_observed>>

async_start ==
    /\ phase = "new"
    /\ LET r == _compute_online(st, age, cfg.stale_timeout) IN
         /\ IF r.online
            THEN _online_since' = 0 /\ _offline_since' = NoTime
            ELSE _offline_since' = 0 /\ _online_since' = NoTime
         /\ _sync_data_without_notify(r.online, r.state)
    /\ startup_msg' = IF cfg.notify_on_start THEN "sending" ELSE "none"
    /\ _unsub' = TRUE
    /\ _unsub_timer' = TRUE
    /\ tick' = _check_interval
    /\ phase' = "running"
    /\ episode_age' = 0
    /\ last_announced' = Status(_compute_online(st, age, cfg.stale_timeout).online)
    /\ UNCHANGED <<cfg, st, age, _pending_task, tasks, _last_probe_ts,
                   _last_refresh_ts, chk, last_observed>>

\* ------------------------------------------------- event path: _handle
\* a handler without the dedup short-circuit
_handle_always_schedule(old_state, new_state) ==
    /\ last_observed' = Status(_is_online(new_state))
    /\ schedule(_is_online(new_state))
    /\ UNCHANGED data

\* a handler whose dedup compares the old reading with the new one
_handle_old_new(old_state, new_state) ==
    /\ last_observed' = Status(_is_online(new_state))
    /\ IF _is_online(old_state) = _is_online(new_state)
       THEN /\ _sync_data_without_notify(_is_online(new_state), new_state)
            /\ UNCHANGED <<_pending_task, tasks>>
       ELSE /\ schedule(_is_online(new_state))
            /\ UNCHANGED data

_handle(old_state, new_state) ==
    LET new_online == _is_online(new_state) IN
    /\ last_observed' = Status(new_online)
    /\ IF data.has /\ data.online = new_online
       THEN /\ _sync_data_without_notify(new_online, new_state)
            /\ UNCHANGED <<_pending_task, tasks>>
       ELSE /\ schedule(new_online)
            /\ UNCHANGED data

\* the entity's state changes to v: a state_changed event is fired, and the
\* handler runs if the subscription is live
StateChange(v) ==
    /\ phase # "new"
    /\ v # st
    /\ st' = v
    /\ age' = 0
    /\ IF _unsub
       THEN _handle(st, v)
       ELSE UNCHANGED <<data, _pending_task, tasks, last_observed>>
    /\ UNCHANGED <<cfg, _online_since, _offline_since, _unsub, _unsub_timer,
                   _last_probe_ts, _last_refresh_ts, tick, chk, startup_msg, phase,
                   episode_age,
                   last_announced>>

\* the entity reports the same state again: last_reported moves, no event
Report ==
    /\ phase # "new"
    /\ st # NoState
    /\ age > 0
    /\ age' = 0
    /\ UNCHANGED <<cfg, st, data, _online_since, _offline_since, _pending_task, tasks,
                   _unsub, _unsub_timer, _last_probe_ts, _last_refresh_ts, tick, chk,
                   startup_msg, phase, last_observed, episode_age,
                   last_announced>>

\* ------------------------------------------------------------------- time
\* One step of time passes.  A timer that is due fires before time goes on.
Advance ==
    /\ phase # "new"
    /\ _unsub_timer => tick > 0
    /\ \A i \in TaskIds : tasks[i].pc = "sleep" => tasks[i].remaining > 0
    /\ tick' = IF _unsub_timer THEN tick - 1 ELSE tick
    /\ tasks' = [i \in TaskIds |->
                   IF tasks[i].pc = "sleep"
                   THEN [tasks[i] EXCEPT !.remaining = @ - 1]
                   ELSE tasks[i]]
    /\ age' = IF st = NoState THEN 0 ELSE Min(age + 1, AgeCap(cfg))
    /\ _online_since' = Aged(_online_since, MaxDur)
    /\ _offline_since' = Aged(_offline_since, MaxDur)
    /\ _last_probe_ts' = Min(_last_probe_ts + 1, _probe_every)
    /\ _last_refresh_ts' = Min(_last_refresh_ts + 1, cfg.refresh_every)
    /\ episode_age' = Aged(episode_age, MaxDur)
    /\ UNCHANGED <<cfg, st, data, _pending_task, _unsub, _unsub_timer, chk,
                   startup_msg, phase, last_observed,
                   last_announced>>

\* ------------------------------------------- periodic path: _periodic_check
\* lines 248-274: recompute the status and feed the debounce scheduler
check_status ==
    LET r == _compute_online(st, age, cfg.stale_timeout) IN
    IF ~data.has
    THEN UNCHANGED <<data, _pending_task, tasks, last_observed>>
    ELSE /\ last_observed' = Status(r.online)
         /\ IF r.online = data.online
            THEN /\ IF data.state # r.state
                    THEN _sync_data_without_notify(r.online, r.state)
                    ELSE UNCHANGED data
                 /\ UNCHANGED <<_pending_task, tasks>>
            ELSE /\ schedule(r.online)
                 /\ UNCHANGED data

\* lines 234-246, then the rest: the refresh request, when one is due
after_probe ==
    IF cfg.refresh_every > 0 /\ _last_refresh_ts >= cfg.refresh_every
    THEN /\ _last_refresh_ts' = 0
         /\ chk' = "refresh"
         /\ UNCHANGED <<data, _pending_task, tasks, last_observed>>
    ELSE /\ UNCHANGED _last_refresh_ts
         /\ chk' = "idle"
         /\ check_status

\* a periodic check that probes whatever the confirmed status is
_periodic_check_probes_online ==
    /\ _unsub_timer
    /\ tick = 0
    /\ chk = "idle"
    /\ tick' = _check_interval
    /\ IF data.has /\ _probe_when_offline
          /\ _last_probe_ts >= _probe_every
       THEN /\ _last_probe_ts' = 0
            /\ chk' = "probe"
            /\ UNCHANGED <<_last_refresh_ts, data, _pending_task, tasks, last_observed>>
       ELSE /\ UNCHANGED _last_probe_ts
            /\ after_probe
    /\ UNCHANGED <<cfg, st, age, _online_since, _offline_since, _unsub, _unsub_timer,
                   startup_msg, phase, episode_age,
                   last_announced>>

\* async_track_time_interval fires: _periodic_check runs to its first await
\* (the interval fires again only after the previous check has returned)
_periodic_check ==
    /\ _unsub_timer
    /\ tick = 0
    /\ chk = "idle"
    /\ tick' = _check_interval
    /\ IF data.has /\ _probe_when_offline /\ ~data.online
          /\ _last_probe_ts >= _probe_every
       THEN /\ _last_probe_ts' = 0
            /\ chk' = "probe"
            /\ UNCHANGED <<_last_refresh_ts, data, _pending_task, tasks, last_observed>>
       ELSE /\ UNCHANGED _last_probe_ts
            /\ after_probe
    /\ UNCHANGED <<cfg, st, age, _online_since, _offline_since, _unsub, _unsub_timer,
                   startup_msg, phase, episode_age,
                   last_announced>>

\* what hass.services.async_call("homeassistant", "update_entity") may do
update_entity == {"ok", "error"}

\* a probe whose exception ends the periodic check
probe_returns_propagates ==
    /\ chk = "probe"
    /\ \E outcome \in update_entity :
         IF outcome = "ok"
         THEN after_probe
         ELSE /\ chk' = "idle"
              /\ UNCHANGED <<_last_refresh_ts, data, _pending_task, tasks, last_observed>>
    /\ UNCHANGED <<cfg, st, age, _online_since, _offline_since, _unsub, _unsub_timer,
                   _last_probe_ts, tick, startup_msg, phase, episode_age,
                   last_announced>>

\* the probe request returns or raises (the exception is logged and dropped)
probe_returns ==
    /\ chk = "probe"
    /\ \E outcome \in update_entity : after_probe
    /\ UNCHANGED <<cfg, st, age, _online_since, _offline_since, _unsub, _unsub_timer,
                   _last_probe_ts, tick, startup_msg, phase, episode_age,
                   last_announced>>

\* the refresh request returns or raises (the exception is logged and dropped)
refresh_returns ==
    /\ chk = "refresh"
    /\ chk' = "idle"
    /\ \E outcome \in update_entity : check_status
    /\ UNCHANGED <<cfg, st, age, _online_since, _offline_since, _unsub, _unsub_timer,
                   _last_probe_ts, _last_refresh_ts, tick, startup_msg, phase, episode_age,
                   last_announced>>

\* ------------------------------------- _debounced_commit_and_notify
\* a confirmation that does not re-read the status after its sleep
revalidate_skipped(current_online, new_online) == TRUE

\* a re-validation that lets through the candidates that no longer hold
revalidate_inverted(current_online, new_online) == current_online # new_online

\* line 288: the candidate no longer holds
revalidate(current_online, new_online) == current_online = new_online

\* a commit that sets the new episode's timer and forgets to clear the old one
commit_timers_not_cleared(has_prev, prev_online, new_online) ==
    IF new_online
    THEN _online_since' = 0 /\ UNCHANGED _offline_since
    ELSE _offline_since' = 0 /\ UNCHANGED _online_since

\* lines 299-326: the episode timers of a commit from prev to new_online
commit_timers(has_prev, prev_online, new_online) ==
    IF has_prev /\ prev_online # new_online
    THEN IF prev_online /\ ~new_online
         THEN _offline_since' = 0 /\ _online_since' = NoTime
         ELSE IF ~prev_online /\ new_online
              THEN _online_since' = 0 /\ _offline_since' = NoTime
              ELSE UNCHANGED <<_online_since, _offline_since>>
    ELSE IF new_online
         THEN _online_since' = 0 /\ _offline_since' = NoTime
         ELSE _offline_since' = 0 /\ _online_since' = NoTime

\* _format_duration: None for None; otherwise the parts of int(seconds): days
\* ("d"), hours ("h") and minutes ("m") when not zero, seconds ("s") always
_format_duration(seconds) ==
    IF seconds = NoTime
    THEN NoDuration
    ELSE LET total == IF seconds < 0 THEN 0 ELSE seconds
             days == total \div 86400
             hours == (total % 86400) \div 3600
             minutes == ((total % 86400) % 3600) \div 60
             secs == ((total % 86400) % 3600) % 60
         IN (IF days # 0 THEN <<<<days, "d">>>> ELSE <<>>)
            \o (IF hours # 0 THEN <<<<hours, "h">>>> ELSE <<>>)
            \o (IF minutes # 0 THEN <<<<minutes, "m">>>> ELSE <<>>)
            \o <<<<secs, "s">>>>

\* (now - since).total_seconds() if since else None
total_seconds(since) == IF since = NoTime THEN NoTime ELSE since * StepSeconds

\* lines 299-318: the elapsed duration that goes into the text of the
\* notification, read from the timers before the commit replaces them
duration_line(has_prev, prev_online, new_online) ==
    IF has_prev /\ prev_online # new_online
    THEN IF prev_online /\ ~new_online
         THEN _format_duration(total_seconds(_online_since))
         ELSE _format_duration(total_seconds(_offline_since))
    ELSE NoDuration

Finished(t, pc) == [pc |-> pc, new_online |-> FALSE, remaining |-> 0,
                    committed |-> t.committed]

\* the sleep is over: lines 287-354, up to the await of the notifier
wake(i) ==
    /\ tasks[i].pc = "sleep"
    /\ tasks[i].remaining = 0
    /\ LET new_online == tasks[i].new_online
           cur == _compute_online(st, age, cfg.stale_timeout)
       IN
       IF ~revalidate(cur.online, new_online)
       THEN /\ tasks' = [tasks EXCEPT ![i] = Finished(@, "done")]
            /\ UNCHANGED <<data, _online_since, _offline_since, episode_age>>
       ELSE IF data.has /\ data.online = new_online
       THEN /\ _sync_data_without_notify(new_online, cur.state)
            /\ tasks' = [tasks EXCEPT ![i] = Finished(@, "done")]
            /\ UNCHANGED <<_online_since, _offline_since, episode_age>>
       ELSE /\ commit_timers(data.has, data.online, new_online)
            /\ _sync_data_without_notify(new_online, cur.state)
            /\ tasks' = [tasks EXCEPT ![i].pc = "send", ![i].committed = TRUE]
            /\ episode_age' = 0
    /\ UNCHANGED <<cfg, st, age, _pending_task, _unsub, _unsub_timer, _last_probe_ts,
                   _last_refresh_ts, tick, chk, startup_msg, phase, last_observed,
                   last_announced>>

\* what awaiting async_send_telegram may do: deliver the message, or fail
async_send_telegram == {"sent", "failed"}

\* a notifier failure that takes the confirmed status back
send_returns_rollback(i) ==
    /\ tasks[i].pc = "send"
    /\ \E outcome \in async_send_telegram :
         /\ tasks' = [tasks EXCEPT ![i].pc = IF outcome = "sent" THEN "done" ELSE "failed"]
         /\ data' = IF outcome = "sent" THEN data ELSE WatchdogData(~data.online, data.state)
    /\ last_announced' = Status(tasks[i].new_online)
    /\ UNCHANGED <<cfg, st, age, _online_since, _offline_since, _pending_task,
                   _unsub, _unsub_timer, _last_probe_ts, _last_refresh_ts, tick, chk,
                   startup_msg, phase, last_observed, episode_age>>

\* line 354: the notifier call of task i returns
send_returns(i) ==
    /\ tasks[i].pc = "send"
    /\ \E outcome \in async_send_telegram :
         tasks' = [tasks EXCEPT ![i].pc = IF outcome = "sent" THEN "done" ELSE "failed"]
    /\ last_announced' = Status(tasks[i].new_online)
    /\ UNCHANGED <<cfg, st, age, data, _online_since, _offline_since, _pending_task,
                   _unsub, _unsub_timer, _last_probe_ts, _last_refresh_ts, tick, chk,
                   startup_msg, phase, last_observed, episode_age>>

\* lines 176-178: the start-up notification's own task ends
startup_send_returns ==
    /\ startup_msg = "sending"
    /\ startup_msg' \in async_send_telegram
    /\ UNCHANGED <<cfg, st, age, data, _online_since, _offline_since, _pending_task,
                   tasks, _unsub, _unsub_timer, _last_probe_ts, _last_refresh_ts, tick,
                   chk, phase, last_observed, episode_age,
                   last_announced>>

\* -------------------------------------------------------------- async_stop
\* a stop that leaves the interval timer running
async_stop_keeps_timer ==
    /\ tasks' = cancel_pending(tasks, _pending_task)
    /\ _unsub' = FALSE
    /\ UNCHANGED <<_unsub_timer, tick>>
    /\ phase' = "stopped"
    /\ UNCHANGED <<cfg, st, age, data, _online_since, _offline_since, _pending_task,
                   _last_probe_ts, _last_refresh_ts, chk, startup_msg, last_observed,
                   episode_age,
                   last_announced>>

async_stop ==
    /\ tasks' = cancel_pending(tasks, _pending_task)
    /\ _unsub' = FALSE
    /\ _unsub_timer' = FALSE
    /\ tick' = 0
    /\ phase' = "stopped"
    /\ UNCHANGED <<cfg, st, age, data, _online_since, _offline_since, _pending_task,
                   _last_probe_ts, _last_refresh_ts, chk, startup_msg, last_observed,
                   episode_age,
                   last_announced>>

\* ---------------------------------------------------------- specification
Next ==
    \/ async_start
    \/ \E v \in Readings \cup {NoState} : StateChange(v)
    \/ Report
    \/ Advance
    \/ _periodic_check
    \/ probe_returns
    \/ refresh_returns
    \/ \E i \in TaskIds : wake(i)
    \/ \E i \in TaskIds : send_returns(i)
    \/ startup_send_returns
    \/ async_stop

Spec == Init /\ [][Next]_vars

\* ----------------------------------------- the staleness evaluation alone
AgeSlack == 10
PureAges ==
    {0} \cup (DEFAULT_STALE_TIMEOUT_SECONDS - 1)..(DEFAULT_STALE_TIMEOUT_SECONDS + AgeSlack)

\* any reading, any age in seconds, staleness off or at its default
PureInit ==
    /\ cfg \in {Config(DEFAULT_DEBOUNCE_SECONDS, s, FALSE, 0) :
                   s \in {0, DEFAULT_STALE_TIMEOUT_SECONDS}}
    /\ st \in AllReadings \cup {NoState}
    /\ age \in PureAges
    /\ Constructed

PureNext == async_start

SpecPure == PureInit /\ [][PureNext]_vars

\* ------------------------------------------- the classifier on any reading
\* async_start, then change events that carry any reading or none
ClassifyNext ==
    \/ async_start
    \/ \E v \in AllReadings \cup {NoState} : StateChange(v)

SpecClassify == PureInit /\ [][ClassifyNext]_vars

\* ------------------------------------- one restoration after start-up
\* the reading is "unavailable" when the coordinator starts; the debounce
\* window is the default one; staleness is off
RestoreInit ==
    /\ cfg \in {Config(DEFAULT_DEBOUNCE_SECONDS \div StepSeconds, 0, n, r) :
                   n \in BOOLEAN, r \in RefreshChoices}
    /\ st = "unavailable"
    /\ age = 0
    /\ Constructed

\* the reading becomes "230" one step (5 s) after async_start and never
\* changes again; everything else runs as in Next; async_stop is not called
RestoreNext ==
    \/ async_start
    \/ (phase = "running" /\ st = "unavailable" /\ episode_age = 1 /\ StateChange("230"))
    \/ Advance
    \/ _periodic_check
    \/ probe_returns
    \/ refresh_returns
    \/ \E i \in TaskIds : wake(i)
    \/ \E i \in TaskIds : send_returns(i)
    \/ startup_send_returns

SpecRestore == RestoreInit /\ [][RestoreNext]_vars

\* the watched entity changes or reports in this step
EnvStep == (\E v \in Readings \cup {NoState} : StateChange(v)) \/ Report

\* The event loop runs every callback that is due and every coroutine that
\* can resume; a service call and a notifier call end; the clock goes on.
\* Nothing forces the entity to change, nor async_stop to be called.
Fairness ==
    /\ WF_vars(async_start)
    /\ WF_vars(Advance)
    /\ WF_vars(_periodic_check)
    /\ WF_vars(probe_returns)
    /\ WF_vars(refresh_returns)
    /\ \A i \in TaskIds : WF_vars(wake(i)) /\ WF_vars(send_returns(i))
    /\ WF_vars(startup_send_returns)

LiveSpec == Init /\ [][Next]_vars /\ Fairness

\* ------------------------------------------------------------ step shapes
\* task i leaves its sleep and runs lines 287-354 in this step
Woke(i) == tasks[i].pc = "sleep" /\ tasks'[i].pc \in {"done", "send"}

\* task i calls the notifier in this step
SendStarted(i) == tasks[i].pc # "send" /\ tasks'[i].pc = "send"

\* the confirmed status changes in this step (start-up excluded)
Transition == data.has /\ data'.online # data.online

\* a state_changed event is delivered to _handle in this step
Event == _unsub /\ st' # st

\* a periodic check reaches lines 248-274 in this step
Checked ==
    /\ chk' = "idle"
    /\ \/ chk = "idle" /\ _unsub_timer /\ tick = 0 /\ tick' = _check_interval
       \/ chk # "idle"

\* a new confirmation for the candidate is the pending one after this step
Scheduled(new_online) ==
    /\ _pending_task' \notin Live(tasks)
    /\ tasks'[_pending_task'].pc = "sleep"
    /\ tasks'[_pending_task'].new_online = new_online
    /\ tasks'[_pending_task'].remaining = cfg.debounce
    /\ Live(tasks') = {_pending_task'}

TimersUnchanged ==
    /\ _online_since' \in {_online_since, Aged(_online_since, MaxDur)}
    /\ _offline_since' \in {_offline_since, Aged(_offline_since, MaxDur)}

\* ------------------------------------------------------------------ claims
\* C1: every confirmed transition made by _debounced_commit_and_notify starts
\* exactly one notifier call and that call is left to run to its end (it
\* returns or fails in the notifier, it is never aborted); no other step, a
\* dedup refresh included, starts a notifier call.
C1_OneNotificationPerTransition ==
    [][/\ Transition => Cardinality({i \in TaskIds : SendStarted(i)}) = 1
       /\ (\E i \in TaskIds : SendStarted(i)) => Transition
       /\ \A i \in TaskIds :
            tasks[i].pc = "send" => tasks'[i].pc \in {"send", "done", "failed"}]_vars

\* C2: when a sleeping confirmation task wakes while the effective status
\* equals the confirmed status, it ends without touching WatchdogData or the
\* episode timers and without calling the notifier.
C2_FlapSuppressed ==
    [][\A i \in TaskIds :
         (Woke(i) /\ data.has /\ Effective.online = data.online)
         => /\ tasks'[i].pc = "done"
            /\ ~tasks'[i].committed
            /\ data' = data
            /\ TimersUnchanged
            /\ ~\E j \in TaskIds : SendStarted(j)]_vars

\* a candidate was scheduled, the status reverted, and the task ended unsent
C2_Witness ==
    /\ data.has
    /\ _pending_task # NoTask
    /\ tasks[_pending_task].pc = "done"
    /\ ~tasks[_pending_task].committed
    /\ Effective.online = data.online
    /\ \A i \in TaskIds : ~tasks[i].committed

\* C3: at most one confirmation task is outstanding (neither finished nor
\* cancelled) at any time.
C3_AtMostOnePending == Cardinality(Live(tasks)) <= 1

\* an observation has superseded a pending task: one cancelled, one sleeping
C3_Witness ==
    \E i, j \in TaskIds :
        /\ tasks[i].pc = "cancelled"
        /\ tasks[j].pc = "sleep"
        /\ _pending_task = j

\* C4: a cancelled confirmation task has committed nothing: it has not
\* replaced WatchdogData, moved the episode timers or called the notifier.
C4_CancelledHasNoEffects ==
    \A i \in TaskIds : tasks[i].pc = "cancelled" => ~tasks[i].committed

\* C5: if from some point on the entity neither changes nor reports (so that
\* the effective status differs from the confirmed one without any event,
\* and then stays as it is), then from some point on the confirmed status
\* of a running coordinator equals the effective status, whatever the
\* debounce window.
C5_SilentChangeConfirmed ==
    (<>[][~EnvStep]_vars) => <>[](phase = "running" => Effective.online = data.online)

\* C6: once async_start has run, exactly one of _online_since and
\* _offline_since is set and it is the one of the confirmed status; the
\* timers are written only by async_start and by a confirmed transition.
TimersMatch ==
    /\ (_online_since # NoTime) = data.online
    /\ (_offline_since # NoTime) = ~data.online

C6_EpisodeTimers ==
    /\ [](data.has => TimersMatch)
    /\ [][~TimersUnchanged => (phase = "new" /\ phase' = "running") \/ Transition]_vars

\* a transition to Online has just been committed
C6_Witness ==
    /\ data.has /\ data.online
    /\ _online_since = 0 /\ _offline_since = NoTime
    /\ \E i \in TaskIds : tasks[i].pc = "send"

\* C7 (as claimed): confirmed Offline, default debounce, an Online
\* confirmation pending; the reading flips back to Offline inside the window.
FlipBack ==
    /\ Event
    /\ data.has /\ ~data.online
    /\ cfg.debounce = DEFAULT_DEBOUNCE_SECONDS \div StepSeconds
    /\ _pending_task # NoTask
    /\ tasks[_pending_task].pc = "sleep"
    /\ tasks[_pending_task].new_online
    /\ tasks[_pending_task].remaining > 0
    /\ _is_online(st) /\ ~_is_online(st')

\* C7, the claim as stated: the second change cancels the pending Online
\* confirmation and starts a fresh debounce window for the Offline candidate.
C7_FlipBackRestartsWindow ==
    [][FlipBack =>
         /\ tasks'[_pending_task].pc = "cancelled"
         /\ _pending_task' # _pending_task
         /\ tasks'[_pending_task'].pc = "sleep"
         /\ ~tasks'[_pending_task'].new_online
         /\ tasks'[_pending_task'].remaining = cfg.debounce]_vars

\* C7, amended: the second change is a dedup refresh (Offline is the confirmed
\* status): it only refreshes the cached value, the pending Online
\* confirmation is left running and no Offline window is started; when the
\* Online confirmation wakes and the status is still Offline, it ends without
\* a commit and without a notification.
C7_FlipBackIsDedup ==
    [][/\ FlipBack =>
            /\ tasks' = tasks
            /\ _pending_task' = _pending_task
            /\ data' = WatchdogData(FALSE, st')
            /\ TimersUnchanged
       /\ \A i \in TaskIds :
            (Woke(i) /\ tasks[i].new_online /\ data.has /\ ~data.online
               /\ ~Effective.online)
            => /\ tasks'[i].pc = "done"
               /\ data' = data
               /\ TimersUnchanged]_vars

\* the reading is Offline again, part of the window has passed, and the
\* Online confirmation is still pending
C7_Witness ==
    /\ _unsub
    /\ data.has /\ ~data.online
    /\ cfg.debounce = DEFAULT_DEBOUNCE_SECONDS \div StepSeconds
    /\ ~_is_online(st) /\ data.state = st
    /\ last_observed = "offline"
    /\ _pending_task # NoTask
    /\ tasks[_pending_task].pc = "sleep"
    /\ tasks[_pending_task].new_online
    /\ tasks[_pending_task].remaining > 0
    /\ tasks[_pending_task].remaining < cfg.debounce

\* C8, the claim as stated: the task that runs to its re-validation is the
\* only outstanding one and carries the status observed last.
C8_WakesWithLastObserved ==
    [][\A i \in TaskIds :
         (Woke(i) /\ cfg.debounce > 0)
         => /\ Live(tasks) = {i}
            /\ tasks[i].new_online = (last_observed = "online")]_vars

\* C8, amended: the task that runs to its re-validation is the only
\* outstanding one and is the one scheduled last (self._pending_task), with a
\* candidate that differs from the confirmed status.
C8_WakesLastScheduled ==
    [][\A i \in TaskIds :
         Woke(i) => /\ Live(tasks) = {i}
                    /\ i = _pending_task
                    /\ data.has
                    /\ tasks[i].new_online # data.online]_vars

\* an earlier task was cancelled in its sleep and the last one has committed
C8_Witness ==
    \E i, j \in TaskIds :
        /\ tasks[i].pc = "cancelled" /\ ~tasks[i].committed
        /\ j = _pending_task
        /\ tasks[j].pc = "send"

\* C9, the claim as stated: an event whose old and new readings classify
\* alike only refreshes the cached value.
C9_SameStatusEventOnlyRefreshes ==
    [][(Event /\ data.has /\ _is_online(st) = _is_online(st'))
       => /\ tasks' = tasks
          /\ _pending_task' = _pending_task
          /\ data' = WatchdogData(data.online, st')]_vars

\* C9, amended: the handler compares the new reading's classification with
\* the confirmed status, not with the old reading: equal, it only refreshes
\* the cached value; different, it cancels the pending confirmation and
\* schedules a new one, whatever the old reading was.
C9_EventComparedWithConfirmed ==
    [][(Event /\ data.has)
       => IF _is_online(st') = data.online
          THEN /\ tasks' = tasks
               /\ _pending_task' = _pending_task
               /\ data' = WatchdogData(data.online, st')
          ELSE /\ data' = data
               /\ _pending_task' \notin Live(tasks)
               /\ tasks'[_pending_task'].pc = "sleep"
               /\ tasks'[_pending_task'].new_online = _is_online(st')
               /\ tasks'[_pending_task'].remaining = cfg.debounce
               /\ Live(tasks') = {_pending_task'}]_vars

\* confirmed Offline by staleness with the cached value "230"; the reading
\* went from "230" to "231" and an Online confirmation has just been scheduled
C9_Witness ==
    /\ _unsub
    /\ data.has /\ ~data.online /\ data.state = "230"
    /\ st = "231" /\ age = 0
    /\ cfg.debounce > 0
    /\ _pending_task # NoTask
    /\ tasks[_pending_task].pc = "sleep"
    /\ tasks[_pending_task].new_online
    /\ tasks[_pending_task].remaining = cfg.debounce

\* C10: the status async_start takes from _compute_online is Offline for an
\* absent reading, Offline for an Online reading older than a positive
\* stale timeout, and the raw classification otherwise (timeout 0 and
\* age = timeout included); "230" aged 130 s under a timeout of 120 s is Offline.
C10_Staleness ==
    data.has =>
      LET raw == st # NoState /\ st \notin {"unavailable", "unknown", "offline"}
          timeout == cfg.stale_timeout
      IN /\ st = NoState => ~data.online
         /\ (raw /\ timeout > 0 /\ age > timeout) => ~data.online
         /\ (st # NoState /\ ~(raw /\ timeout > 0 /\ age > timeout))
               => data.online = raw
         /\ (st = "230" /\ age = 130 /\ timeout = 120) => ~data.online
         /\ (st = "230" /\ age = 120 /\ timeout = 120) => data.online
         /\ (st = "230" /\ timeout = 0) => data.online

C10_Witness ==
    /\ data.has /\ ~data.online
    /\ st = "230" /\ age = 130 /\ cfg.stale_timeout = 120

\* C5 restricted to a debounce window shorter than the check interval (the
\* pending confirmation then wakes before the next tick replaces it).
C5_ShortDebounceConfirmed ==
    cfg.debounce >= _check_interval \/ C5_SilentChangeConfirmed

\* C11: _is_online gives Offline for an absent reading and for each of
\* "unavailable", "unknown" and "offline", and Online for every other value:
\* the status async_start takes from a fresh reading, and the status _handle
\* takes from the new reading of every change event, is that classification.
C11_Classifier ==
    /\ [](phase = "running" /\ last_observed = "none" /\ age = 0
            => data.online = (st \notin {NoState, "unavailable", "unknown", "offline"}))
    /\ [][Event => last_observed'
                     = Status(st' \notin {NoState, "unavailable", "unknown", "offline"})]_vars

\* confirmed Online, then the entity is removed: the event classifies Offline
C11_Witness ==
    /\ data.has /\ data.online
    /\ st = NoState
    /\ last_observed = "offline"
    /\ _pending_task # NoTask
    /\ tasks[_pending_task].pc = "sleep"
    /\ ~tasks[_pending_task].new_online

\* the duration a commit puts into its notification is the time since the
\* confirmed status was established by async_start or by the previous commit
C12_DurationSinceEpisodeStart ==
    [][\A i \in TaskIds :
         SendStarted(i)
         => /\ episode_age # NoTime
            /\ duration_line(data.has, data.online, tasks[i].new_online)
                 = _format_duration(total_seconds(episode_age))]_vars

\* C12: the duration reported by a commit is now - _online_since (Online to
\* Offline) or now - _offline_since (Offline to Online), the time since
\* async_start or the previous commit; and with "unavailable" at start-up,
\* "230" from 5 s on and a debounce of 10 s, nothing is notified before 15 s,
\* Online is confirmed at 15 s (the clock does not pass 15 s with Offline
\* still confirmed) and the notification reports an offline duration of 15 s.
C12_EpisodeDuration ==
    /\ C12_DurationSinceEpisodeStart
    /\ [][\A i \in TaskIds :
            SendStarted(i)
            => /\ tasks[i].new_online
               /\ episode_age * StepSeconds = 15
               /\ duration_line(data.has, data.online, TRUE) = <<<<15, "s">>>>]_vars
    /\ []((data.has /\ ~data.online /\ st = "230") => episode_age * StepSeconds <= 15)

\* C13: async_start makes the effective status of the initial reading the
\* confirmed one (Offline for an absent or sentinel reading), sets the timer
\* of that status to the start time and clears the other, starts the
\* start-up notification if and only if notify_on_start is set, directly and
\* not through a debounced confirmation task, and installs the subscription
\* and the interval timer, neither of which exists before.
C13_Start ==
    /\ [](phase = "new" => ~data.has /\ ~_unsub /\ ~_unsub_timer /\ startup_msg = "none")
    /\ [][(phase = "new" /\ phase' = "running")
          => LET raw == st \notin {NoState, "unavailable", "unknown", "offline"}
                 online == raw /\ ~(cfg.stale_timeout > 0 /\ age > cfg.stale_timeout)
             IN /\ data' = WatchdogData(online, st)
                /\ (raw = FALSE => ~data'.online)
                /\ _online_since' = (IF online THEN 0 ELSE NoTime)
                /\ _offline_since' = (IF online THEN NoTime ELSE 0)
                /\ (startup_msg' = "sending") = cfg.notify_on_start
                /\ (startup_msg' = "none") = ~cfg.notify_on_start
                /\ tasks' = tasks /\ _pending_task' = _pending_task
                /\ _unsub' /\ _unsub_timer' /\ tick' = _check_interval]_vars

\* started on an "unavailable" reading with notify_on_start set
C13_Witness ==
    /\ phase = "running"
    /\ cfg.notify_on_start
    /\ startup_msg = "sending"
    /\ st = "unavailable"
    /\ data = WatchdogData(FALSE, "unavailable")
    /\ _offline_since = 0 /\ _online_since = NoTime
    /\ _unsub /\ _unsub_timer /\ tick = _check_interval
    /\ \A i \in TaskIds : tasks[i].pc = "free"

\* the first call of async_stop on a coordinator, started or not
StopStep == phase # "stopped" /\ phase' = "stopped"

\* C14: async_stop cancels the pending confirmation task if it is not done,
\* removes the change subscription and cancels the interval timer, and leaves
\* everything else as it is; on a coordinator that was never started it
\* changes nothing; and the state it leaves is one that a second call leaves
\* exactly as it is (nothing left to cancel, to unsubscribe or to stop).
C14_StopIdempotent ==
    [][StopStep =>
         /\ _pending_task # NoTask => done(tasks'[_pending_task])
         /\ \A i \in TaskIds : (i # _pending_task \/ done(tasks[i])) => tasks'[i] = tasks[i]
         /\ ~_unsub' /\ ~_unsub_timer'
         /\ UNCHANGED <<data, _online_since, _offline_since, _pending_task, st, age>>
         /\ phase = "new" => (tasks' = tasks /\ ~_unsub /\ ~_unsub_timer /\ ~data'.has)
         /\ cancel_pending(tasks', _pending_task') = tasks'
         /\ (_unsub' = FALSE /\ _unsub_timer' = FALSE /\ tick' = 0 /\ phase' = "stopped")]_vars

\* stopped while a confirmation was sleeping: the task is cancelled
C14_Witness ==
    /\ phase = "stopped"
    /\ ~_unsub /\ ~_unsub_timer
    /\ data.has
    /\ _pending_task # NoTask
    /\ tasks[_pending_task].pc = "cancelled"
    /\ ~tasks[_pending_task].committed
    /\ chk = "idle"

\* the notifier call of task i fails in this step
SendFailed(i) == tasks[i].pc = "send" /\ tasks'[i].pc = "failed"

\* C15: a failure of the notifier call leaves WatchdogData (status and cached
\* value), the episode timers, the subscription and the interval timer as the
\* commit made them; and while a failed task is around, an event and a
\* periodic check that see the opposite status still schedule a
\* confirmation, and a confirmation whose candidate still holds at wake-up
\* still commits and calls the notifier.
C15_NotifierFailure ==
    [][/\ \A i \in TaskIds :
            SendFailed(i)
            => /\ tasks[i].committed /\ tasks'[i].committed
               /\ UNCHANGED <<data, _online_since, _offline_since, _pending_task,
                              _unsub, _unsub_timer, tick, chk, phase>>
       /\ (\E j \in TaskIds : tasks[j].pc = "failed")
          => /\ (Event /\ data.has /\ _is_online(st') # data.online)
                  => Scheduled(~data.online)
             /\ (Checked /\ data.has /\ Effective.online # data.online)
                  => Scheduled(~data.online)
             /\ \A i \in TaskIds :
                  (Woke(i) /\ data.has /\ tasks[i].new_online # data.online
                     /\ Effective.online = tasks[i].new_online)
                  => /\ data'.online = tasks[i].new_online
                     /\ data'.state = st
                     /\ SendStarted(i)]_vars

\* the notification of a commit has failed and the opposite transition has
\* been committed since
C15_Witness ==
    \E i, j \in TaskIds :
        /\ tasks[i].pc = "failed" /\ tasks[i].committed
        /\ _pending_task = j
        /\ tasks[j].pc = "send" /\ tasks[j].committed
        /\ data.has /\ data.online = tasks[j].new_online
        /\ phase = "running"

\* the probe or refresh request of a periodic check returns in this step,
\* with a result or with an exception
Returned == chk # "idle" /\ chk' # chk

\* C16: whatever the outcome of the probe or refresh request, the exception
\* included, the periodic check goes on in the same step: after the probe
\* comes the refresh request if one is due, and then the status is recomputed
\* and a confirmation is scheduled if and only if it differs from the
\* confirmed status; the step itself changes neither the confirmed status nor
\* the episode timers.
C16_ProbeFailure ==
    [][Returned =>
         /\ chk = "probe" =>
               chk' = (IF cfg.refresh_every > 0 /\ _last_refresh_ts >= cfg.refresh_every
                       THEN "refresh" ELSE "idle")
         /\ chk = "refresh" => chk' = "idle"
         /\ (chk' = "idle" /\ data.has) =>
               IF Effective.online # data.online
               THEN Scheduled(Effective.online) /\ data' = data
               ELSE /\ tasks' = tasks /\ _pending_task' = _pending_task
                    /\ data' = WatchdogData(data.online, st)
         /\ chk' # "idle" => UNCHANGED <<data, tasks, _pending_task>>
         /\ data'.online = data.online
         /\ UNCHANGED <<_online_since, _offline_since, phase, _unsub, _unsub_timer>>]_vars

\* confirmed Offline, the probe of this instant has returned and the check
\* has scheduled an Online confirmation in the same step
C16_Witness ==
    /\ phase = "running"
    /\ data.has /\ ~data.online
    /\ Effective.online
    /\ chk = "idle"
    /\ _last_probe_ts = 0
    /\ tick = _check_interval
    /\ cfg.debounce > 0
    /\ last_observed = "online"
    /\ _pending_task # NoTask
    /\ tasks[_pending_task].pc = "sleep"
    /\ tasks[_pending_task].new_online
    /\ tasks[_pending_task].remaining = cfg.debounce

\* a periodic check issues its probe request / its refresh request
ProbeIssued == chk # "probe" /\ chk' = "probe"
RefreshIssued == chk # "refresh" /\ chk' = "refresh"

\* _last_probe_ts is the time since the last probe request (bounded at
\* _probe_every): a request resets it and only the clock moves it
ProbeClock ==
    /\ ProbeIssued => _last_probe_ts' = 0
    /\ ~ProbeIssued => _last_probe_ts' \in {_last_probe_ts,
                                              Min(_last_probe_ts + 1, _probe_every)}

\* C17, the claim as stated: every update_entity request, the probe and the
\* refresh alike, is issued in a periodic check while the confirmed status is
\* Offline, and probe requests are at least _probe_every apart.
C17_RequestsOnlyWhileOffline ==
    [][/\ (ProbeIssued \/ RefreshIssued) => (data.has /\ ~data.online)
       /\ ProbeIssued => _last_probe_ts >= _probe_every
       /\ ProbeClock]_vars

\* C17, amended: a probe request is issued only when a periodic check starts
\* while the confirmed status is Offline, and at least _probe_every (20 s)
\* after the previous probe request; the refresh request of the same check
\* is issued whenever refresh_every is positive and that much time has passed
\* since the last refresh request, whatever the confirmed status, Online
\* included.
C17_ProbesOnlyWhileOffline ==
    [][/\ ProbeIssued => /\ data.has /\ ~data.online
                         /\ chk = "idle" /\ _unsub_timer /\ tick = 0
                         /\ _last_probe_ts >= _probe_every
       /\ ProbeClock
       /\ RefreshIssued => /\ cfg.refresh_every > 0
                           /\ _last_refresh_ts >= cfg.refresh_every
                           /\ _last_refresh_ts' = 0
       /\ (chk = "idle" /\ _unsub_timer /\ tick = 0 /\ tick' = _check_interval
             /\ data.has /\ data.online)
          => chk' = (IF cfg.refresh_every > 0 /\ _last_refresh_ts >= cfg.refresh_every
                     THEN "refresh" ELSE "idle")]_vars

\* confirmed Online since start-up and a refresh request in flight
C17_Witness ==
    /\ phase = "running"
    /\ data.has /\ data.online
    /\ \A i \in TaskIds : tasks[i].pc = "free"
    /\ chk = "refresh"
    /\ _last_refresh_ts = 0
    /\ tick = _check_interval

\* C18: every step that writes WatchdogData writes the effective status
\* (classifier plus staleness) of the reading as it is at that step, with the
\* value of that reading; the confirmed status changes only in a step in
\* which a confirmation task wakes and re-reads the status, and the new
\* confirmed status is then the effective one, the task's candidate, and not
\* the previous confirmed status.
C18_RevalidatedCommit ==
    [][/\ data' # data
          => /\ data'.has
             /\ data'.online = _compute_online(st', age', cfg.stale_timeout).online
             /\ data'.state = st'
       /\ Transition
          => \E i \in TaskIds :
               /\ Woke(i) /\ SendStarted(i)
               /\ st' = st /\ age' = age
               /\ data'.online = Effective.online
               /\ data'.online = tasks[i].new_online
               /\ data'.online # data.online]_vars

\* an Online reading has gone stale and Offline has just been committed
C18_Witness ==
    /\ cfg.stale_timeout > 0
    /\ st = "230" /\ age > cfg.stale_timeout
    /\ data = WatchdogData(FALSE, "230")
    /\ episode_age = 0
    /\ \E i \in TaskIds :
         tasks[i].pc = "send" /\ tasks[i].committed /\ ~tasks[i].new_online

\* a confirmation task is created in this step
TaskCreated == \E i \in TaskIds : tasks[i].pc # "sleep" /\ tasks'[i].pc = "sleep"

\* C19: once async_stop has run, no confirmation task is outstanding and none
\* is created, WatchdogData and the episode timers are not written, and no
\* notifier call is started, whatever was in flight when it ran.
C19_QuiescentAfterStop ==
    /\ [](phase = "stopped" => Live(tasks) = {})
    /\ [][phase = "stopped"
          => /\ ~TaskCreated
             /\ data' = data
             /\ TimersUnchanged
             /\ \A i \in TaskIds : ~SendStarted(i)]_vars

\* the notifier call of task i returns in this step: the message is delivered
Delivered(i) == tasks[i].pc = "send" /\ tasks'[i].pc = "done"

\* C20: every transition notification that is delivered announces the
\* opposite of what the previous transition notification announced (a
\* notification whose call failed in the notifier counts as the previous
\* one), and the first one the opposite of the status established by
\* async_start.
C20_NotificationsAlternate ==
    [][\A i \in TaskIds :
         Delivered(i) => Status(tasks[i].new_online) # last_announced]_vars

====
